---- MODULE Spec2Model ----
(***************************************************************************)
(* Model of server.py: a local static file server that resolves its base   *)
(* directory, validates the start page, probes ports 8000..8019 for a      *)
(* listener, prints a banner, opens the browser and serves until           *)
(* interrupted.                                                            *)
(*                                                                         *)
(* run_server is modelled statement by statement with a program counter.   *)
(* The environment is: the presence of the start page, the two bundle      *)
(* indicators of the runtime, the set of ports other programs occupy, the  *)
(* lines typed on the terminal, the outcome of the browser launch, the     *)
(* requests sent to the listener and the way the serve loop is ended.      *)
(* input() is modelled as a read that blocks until a line is available.    *)
(***************************************************************************)
EXTENDS Integers, Sequences, FiniteSets

\* ---- program constants (server.py:7-9, 35) ----
HOST == "127.0.0.1"
PORT == 8000
START_PAGE == "main.html"
PortRange == 20

\* ---- bounds of the environment ----
MaxOccupied == 2   \* occupied-port sets with at most this many occupied ports
MaxFree == 1       \* ... or with at most this many free ports
MaxStdin == 1      \* lines the user types on the terminal
MaxRequests == 2   \* requests handled by the serve loop

Ports == PORT .. (PORT + PortRange - 1)

\* httpd = None : no listener object (server.py:34)
None == 0

\* the range named in "ERROR: Could not bind to a port (8000-8019)."
\* (server.py:44)
ErrorRangeFirst == 8000
ErrorRangeLast == 8019

\* values of the runtime attribute sys.frozen: not set, falsy, truthy
FrozenValues == {"absent", "false", "true"}

\* directories get_base_dir can name
MEIPASS_DIR == "bundle_extraction_dir"
SOURCE_DIR == "source_file_dir"

\* paths a client may request: the start page and a path that does not exist
RequestPaths == {START_PAGE, "nonexistent.html"}

VARIABLES
    pc,              \* position of run_server
    startPageExists, \* environment: main.html exists in the base directory
    frozen,          \* environment: sys.frozen
    hasMeipass,      \* environment: sys has the attribute _MEIPASS
    occupied,        \* environment: ports on which a bind raises OSError
    stdin,           \* environment: lines typed and not yet read
    base_dir,        \* local of run_server
    port,            \* local of run_server
    httpd,           \* local of run_server: None or the port the listener is bound to
    url,             \* local of run_server
    closes,          \* number of server_close calls on the listener
    exc,             \* exception that left run_server ("none" if none)
    pending,         \* exception in flight while the finally block runs
    fatal,           \* fatal condition detected ("none" if none)
    interrupted,     \* a KeyboardInterrupt was delivered to the serve loop
    trace,           \* externally visible steps, in order
    responses,       \* status codes of the requests handled
    logStream        \* per-request log lines written by the handler

vars == <<pc, startPageExists, frozen, hasMeipass, occupied, stdin, base_dir,
          port, httpd, url, closes, exc, pending, fatal, interrupted, trace,
          responses, logStream>>

envVars == <<startPageExists, frozen, hasMeipass, occupied>>

\* ---- helpers ----

NoUrl == [host |-> "", port |-> 0, page |-> ""]

Url_default_port(p) == [host |-> HOST, port |-> PORT, page |-> START_PAGE]

\* f"http://{HOST}:{port}/{START_PAGE}" (server.py:48), kept as its three fields
Url(p) == [host |-> HOST, port |-> p, page |-> START_PAGE]

Event(op, p, u) == [op |-> op, port |-> p, url |-> u]

Emit(op) == trace' = Append(trace, Event(op, 0, NoUrl))

Happened(op) == \E i \in 1..Len(trace) : trace[i].op = op

IndexOf(op) == CHOOSE i \in 1..Len(trace) : trace[i].op = op

\* getattr(sys, "frozen", False) (server.py:12)
GetattrFrozen == IF frozen = "absent" THEN FALSE ELSE frozen = "true"

\* sys._MEIPASS (server.py:13): an AttributeError when the attribute is absent
SysMeipass == IF hasMeipass THEN MEIPASS_DIR ELSE "AttributeError"

get_base_dir_or ==
    IF GetattrFrozen \/ hasMeipass THEN SysMeipass ELSE SOURCE_DIR

get_base_dir ==
    IF GetattrFrozen /\ hasMeipass THEN SysMeipass ELSE SOURCE_DIR

\* os.path.exists on a path of the base directory
PathExists(path) == path = START_PAGE /\ startPageExists

StartPageMissing_never == FALSE

\* not os.path.exists(START_PAGE) (server.py:27)
StartPageMissing == ~PathExists(START_PAGE)

LoopTest_inclusive == port <= PORT + PortRange

LoopTest_off_by_one == port < PORT + PortRange - 1

\* while port < PORT + 20 (server.py:35)
LoopTest == port < PORT + PortRange

\* socketserver.TCPServer((HOST, port), handler) raises OSError (server.py:38, 40)
BindFails(p) == p \in occupied

NoListener_never == FALSE

\* httpd is None (server.py:43)
NoListener == httpd = None

Caught_nothing(e) == FALSE

\* except KeyboardInterrupt (server.py:62)
Caught(e) == e = "KeyboardInterrupt"

log_message_base(stream, line) == Append(stream, line)

\* QuietHandler.log_message: pass (server.py:20-21)
log_message(stream, line) == stream

\* ---- initial state ----

RECURSIVE SetsUpTo(_)
\* the subsets of Ports with at most k elements
SetsUpTo(k) ==
    IF k = 0 THEN {{}}
    ELSE LET prev == SetsUpTo(k - 1)
         IN  prev \cup {S \cup {p} : S \in prev, p \in Ports}

\* the port occupations considered: few ports occupied, or few ports free
OccupiedSets ==
    SetsUpTo(MaxOccupied) \cup {Ports \ F : F \in SetsUpTo(MaxFree)}

Init ==
    /\ pc = "start"
    /\ startPageExists \in BOOLEAN
    /\ frozen \in FrozenValues
    /\ hasMeipass \in BOOLEAN
    /\ occupied \in OccupiedSets
    /\ stdin = 0
    /\ base_dir = ""
    /\ port = 0
    /\ httpd = None
    /\ url = NoUrl
    /\ closes = 0
    /\ exc = "none"
    /\ pending = "none"
    /\ fatal = "none"
    /\ interrupted = FALSE
    /\ trace = <<>>
    /\ responses = <<>>
    /\ logStream = <<>>

\* ---- the environment ----

\* the user types a line on the terminal (possibly ahead of the prompt)
TypeEnter ==
    /\ stdin < MaxStdin
    /\ stdin' = stdin + 1
    /\ UNCHANGED <<pc, envVars, base_dir, port, httpd, url, closes, exc,
                   pending, fatal, interrupted, trace, responses, logStream>>

\* ---- run_server ----

\* base_dir = get_base_dir(); os.chdir(base_dir) (server.py:24-25)
ResolveBaseDir ==
    /\ pc = "start"
    /\ base_dir' = get_base_dir
    /\ pc' = "validate"
    /\ UNCHANGED <<envVars, stdin, port, httpd, url, closes, exc, pending,
                   fatal, interrupted, trace, responses, logStream>>

\* if not os.path.exists(START_PAGE): print(...) (server.py:27-28)
ValidateMissing ==
    /\ pc = "validate"
    /\ StartPageMissing
    /\ trace' = trace \o <<Event("exists_check", 0, NoUrl),
                           Event("print_error_missing", 0, NoUrl)>>
    /\ fatal' = "StartupFileMissing"
    /\ pc' = "prompt"
    /\ UNCHANGED <<envVars, stdin, base_dir, port, httpd, url, closes, exc,
                   pending, interrupted, responses, logStream>>

\* the start page exists: port = PORT; httpd = None (server.py:27, 33-34)
ValidateOk ==
    /\ pc = "validate"
    /\ ~StartPageMissing
    /\ port' = PORT
    /\ httpd' = None
    /\ Emit("exists_check")
    /\ pc' = "probe"
    /\ UNCHANGED <<envVars, stdin, base_dir, url, closes, exc, pending, fatal,
                   interrupted, responses, logStream>>

\* one iteration of the loop whose bind succeeds: httpd is set, break
\* (server.py:35-39)
BindOk ==
    /\ pc = "probe"
    /\ LoopTest
    /\ ~BindFails(port)
    /\ httpd' = port
    /\ trace' = Append(trace, Event("bind_ok", port, NoUrl))
    /\ pc' = "check"
    /\ UNCHANGED <<envVars, stdin, base_dir, port, url, closes, exc, pending,
                   fatal, interrupted, responses, logStream>>

\* one iteration of the loop whose bind raises OSError: port += 1
\* (server.py:35-41)
BindFail ==
    /\ pc = "probe"
    /\ LoopTest
    /\ BindFails(port)
    /\ port' = port + 1
    /\ trace' = Append(trace, Event("bind_fail", port, NoUrl))
    /\ UNCHANGED <<pc, envVars, stdin, base_dir, httpd, url, closes, exc,
                   pending, fatal, interrupted, responses, logStream>>

\* the loop condition is false: the loop ends without a listener (server.py:35)
ProbeExhausted ==
    /\ pc = "probe"
    /\ ~LoopTest
    /\ pc' = "check"
    /\ UNCHANGED <<envVars, stdin, base_dir, port, httpd, url, closes, exc,
                   pending, fatal, interrupted, trace, responses, logStream>>

\* if httpd is None: print("ERROR: Could not bind ...") (server.py:43-44)
ReportExhausted ==
    /\ pc = "check"
    /\ NoListener
    /\ trace' = Append(trace, Event("print_error_ports", 0, NoUrl))
    /\ fatal' = "PortExhausted"
    /\ pc' = "prompt"
    /\ UNCHANGED <<envVars, stdin, base_dir, port, httpd, url, closes, exc,
                   pending, interrupted, responses, logStream>>

\* url = f"http://..."; the banner is printed (server.py:48-56)
PrintBanner ==
    /\ pc = "check"
    /\ ~NoListener
    /\ url' = Url(port)
    /\ trace' = Append(trace, Event("print_banner", 0, url'))
    /\ pc' = "browser"
    /\ UNCHANGED <<envVars, stdin, base_dir, port, httpd, closes, exc, pending,
                   fatal, interrupted, responses, logStream>>

\* input("Press Enter to exit...") writes its prompt (server.py:29, 45)
Prompt ==
    /\ pc = "prompt"
    /\ Emit("prompt")
    /\ pc' = "read"
    /\ UNCHANGED <<envVars, stdin, base_dir, port, httpd, url, closes, exc,
                   pending, fatal, interrupted, responses, logStream>>

ReadAck_no_wait ==
    /\ pc = "read"
    /\ pc' = "done"
    /\ UNCHANGED <<envVars, stdin, base_dir, port, httpd, url, closes, exc,
                   pending, fatal, interrupted, trace, responses, logStream>>

\* input(...) blocks until a line can be read, then return (server.py:29-30, 45-46)
ReadAck ==
    /\ pc = "read"
    /\ stdin > 0
    /\ stdin' = stdin - 1
    /\ Emit("ack_read")
    /\ pc' = "done"
    /\ UNCHANGED <<envVars, base_dir, port, httpd, url, closes, exc, pending,
                   fatal, interrupted, responses, logStream>>

BrowserOpen_not_invoked ==
    /\ pc = "browser"
    /\ pc' = "try"
    /\ UNCHANGED <<envVars, stdin, base_dir, port, httpd, url, closes, exc,
                   pending, fatal, interrupted, trace, responses, logStream>>

\* webbrowser.open(url) returns, whether or not a browser was launched
\* (server.py:58)
BrowserOpen ==
    /\ pc = "browser"
    /\ \E launched \in BOOLEAN :
         trace' = Append(trace,
                    Event(IF launched THEN "browser_opened" ELSE "browser_not_opened",
                          0, url))
    /\ pc' = "try"
    /\ UNCHANGED <<envVars, stdin, base_dir, port, httpd, url, closes, exc,
                   pending, fatal, interrupted, responses, logStream>>

\* webbrowser.open(url) raises: nothing encloses the call, so the error
\* leaves run_server (server.py:58)
BrowserRaise ==
    /\ pc = "browser"
    /\ trace' = Append(trace, Event("browser_raised", 0, url))
    /\ exc' = "BrowserError"
    /\ pc' = "raised"
    /\ UNCHANGED <<envVars, stdin, base_dir, port, httpd, url, closes, pending,
                   fatal, interrupted, responses, logStream>>

\* try: httpd.serve_forever() is entered (server.py:60-61)
EnterServe ==
    /\ pc = "try"
    /\ Emit("serve_forever")
    /\ pc' = "serving"
    /\ UNCHANGED <<envVars, stdin, base_dir, port, httpd, url, closes, exc,
                   pending, fatal, interrupted, responses, logStream>>

\* the serve loop handles one request with QuietHandler: the response status
\* is sent and the handler's logging step runs (server.py:16-21, 61)
HandleRequest ==
    /\ pc = "serving"
    /\ Len(responses) < MaxRequests
    /\ \E path \in RequestPaths :
         LET status == IF PathExists(path) THEN 200 ELSE 404
         IN  /\ responses' = Append(responses, status)
             /\ logStream' = log_message(logStream, <<path, status>>)
    /\ UNCHANGED <<pc, envVars, stdin, base_dir, port, httpd, url, closes, exc,
                   pending, fatal, interrupted, trace>>

\* an exception e leaves serve_forever: except KeyboardInterrupt swallows the
\* interrupt, anything else stays in flight; the finally block runs next
\* (server.py:60-64)
ServeRaises(e) ==
    /\ pc = "serving"
    /\ interrupted' = (e = "KeyboardInterrupt")
    /\ pending' = IF Caught(e) THEN "none" ELSE e
    /\ pc' = "finally"
    /\ UNCHANGED <<envVars, stdin, base_dir, port, httpd, url, closes, exc,
                   fatal, trace, responses, logStream>>

Interrupt == ServeRaises("KeyboardInterrupt")

ServeError == ServeRaises("OtherError")

\* finally: httpd.server_close(); then return, or let the exception in flight
\* leave run_server (server.py:64-65)
Finally ==
    /\ pc = "finally"
    /\ closes' = closes + 1
    /\ Emit("server_close")
    /\ exc' = pending
    /\ pc' = IF pending = "none" THEN "done" ELSE "raised"
    /\ UNCHANGED <<envVars, stdin, base_dir, port, httpd, url, pending, fatal,
                   interrupted, responses, logStream>>

Next ==
    \/ TypeEnter
    \/ ResolveBaseDir
    \/ ValidateMissing
    \/ ValidateOk
    \/ BindOk
    \/ BindFail
    \/ ProbeExhausted
    \/ ReportExhausted
    \/ PrintBanner
    \/ Prompt
    \/ ReadAck
    \/ BrowserOpen
    \/ BrowserRaise
    \/ EnterServe
    \/ HandleRequest
    \/ Interrupt
    \/ ServeError
    \/ Finally

Spec == Init /\ [][Next]_vars

\* ---- derived notions ----

Ended == pc \in {"done", "raised"}

ListenerBound == httpd # None

ListenerClosed == closes > 0

FreePorts == Ports \ occupied

BindAttempted == Happened("bind_ok") \/ Happened("bind_fail")

BannerPrinted == Happened("print_banner")

BrowserInvoked ==
    Happened("browser_opened") \/ Happened("browser_not_opened")
        \/ Happened("browser_raised")

ServeEntered == Happened("serve_forever")

ErrorEmitted == Happened("print_error_missing") \/ Happened("print_error_ports")

TypeOK ==
    /\ pc \in {"start", "validate", "probe", "check", "prompt", "read",
               "browser", "try", "serving", "finally", "done", "raised"}
    /\ httpd \in Ports \cup {None}
    /\ stdin \in 0..MaxStdin
    /\ fatal \in {"none", "StartupFileMissing", "PortExhausted"}

Min(S) == CHOOSE m \in S : \A x \in S : m <= x

\* the probing loop is over
ProbingOver == pc \notin {"start", "validate", "probe"}

\* ---- claims ----

\* C1: on every exit path of run_server that is reachable after a listener
\* has been bound (interrupt, other exception out of the serve loop, failure
\* raised by the browser launch), server_close has been called before
\* run_server ends.
C1_ClosedOnEveryExit == (Ended /\ ListenerBound) => ListenerClosed

\* C2: if the start page does not exist, no bind is ever attempted, no
\* listener is constructed, no banner is printed and the browser is never
\* opened; the run ends in the StartupFileMissing fatal path.
C2_MissingStartPage ==
    ~startPageExists =>
        /\ ~BindAttempted
        /\ ~ListenerBound
        /\ ~BannerPrinted
        /\ ~BrowserInvoked
        /\ ~ServeEntered
        /\ pc \in {"start", "validate", "prompt", "read", "done"}
        /\ pc \in {"prompt", "read", "done"} =>
              fatal = "StartupFileMissing" /\ Happened("print_error_missing")

C2_Witness ==
    /\ ~startPageExists
    /\ pc = "done"
    /\ fatal = "StartupFileMissing"

\* C3: when the start page exists and some port of 8000..8019 can be bound,
\* the listener is bound to the lowest bindable port, and the port of the URL
\* printed in the banner and passed to the browser is the port the listener
\* is bound to.
C3_LowestPortAndUrl ==
    (startPageExists /\ FreePorts # {}) =>
        /\ ProbingOver => ListenerBound
        /\ ListenerBound => httpd = Min(FreePorts)
        /\ \A i \in 1..Len(trace) :
              trace[i].op \in {"print_banner", "browser_opened",
                               "browser_not_opened", "browser_raised"}
                 => /\ ListenerBound
                    /\ trace[i].url.port = httpd
                    /\ trace[i].url.host = HOST
                    /\ trace[i].url.page = START_PAGE

C3_Witness ==
    /\ startPageExists
    /\ occupied = {PORT}
    /\ httpd = PORT + 1
    /\ BannerPrinted
    /\ Happened("browser_opened")
    /\ url.port = PORT + 1

\* C4: if the bind fails on every one of the 20 ports 8000..8019, the run
\* ends in the PortExhausted fatal path: an error is emitted, no listener
\* exists, no banner is printed, the browser is never opened and the serve
\* loop is never entered.
C4_PortExhausted ==
    (startPageExists /\ FreePorts = {}) =>
        /\ ~ListenerBound
        /\ ~BannerPrinted
        /\ ~BrowserInvoked
        /\ ~ServeEntered
        /\ pc \in {"start", "validate", "probe", "check", "prompt", "read", "done"}
        /\ pc \in {"prompt", "read", "done"} =>
              fatal = "PortExhausted" /\ Happened("print_error_ports")

C4_Witness ==
    /\ startPageExists
    /\ FreePorts = {}
    /\ Len(SelectSeq(trace, LAMBDA e : e.op = "bind_fail")) = PortRange
    /\ fatal = "PortExhausted"
    /\ pc = "done"

\* C5: a KeyboardInterrupt delivered while the serve loop is blocking is
\* caught: the listener is then closed and run_server returns normally, no
\* exception leaves run_server.
C5_InterruptIsCleanShutdown ==
    interrupted =>
        /\ pending = "none"
        /\ exc = "none"
        /\ pc \in {"finally", "done"}
        /\ pc = "done" => ListenerClosed

C5_Witness ==
    /\ interrupted
    /\ pc = "done"
    /\ ListenerClosed
    /\ exc = "none"

\* C6: a failure of the browser launch, the launch call raising included, is
\* not fatal: once the launch has been invoked after a bind, the run goes on
\* to the serve loop.
C6_BrowserFailureNotFatal ==
    BrowserInvoked => (pc = "try" \/ ServeEntered)

\* C7: when the start page exists and some port of 8000..8019 can be bound,
\* no error message is emitted and no acknowledgment prompt is shown, however
\* many lower ports failed to bind, and the run reaches the serve loop.
C7_BindFailureNotSurfaced ==
    (startPageExists /\ FreePorts # {}) =>
        /\ ~ErrorEmitted
        /\ ~Happened("prompt")
        /\ fatal = "none"
        /\ Ended => ServeEntered

C9_BaseDir ==
    pc # "start" =>
        /\ base_dir \in {MEIPASS_DIR, SOURCE_DIR}
        /\ base_dir = MEIPASS_DIR <=> (frozen = "true" /\ hasMeipass)

C9_Witness ==
    /\ pc # "start"
    /\ frozen = "true"
    /\ hasMeipass
    /\ base_dir = MEIPASS_DIR

\* C10: no request handled by the server writes a log line: for every
\* sequence of requests, answered with success or with an error status, the
\* handler's logging step emits nothing.
C10_NoRequestLog == logStream = <<>>

C10_Witness ==
    /\ Len(responses) = MaxRequests
    /\ \E i \in 1..Len(responses) : responses[i] = 200
    /\ \E i \in 1..Len(responses) : responses[i] = 404

\* the bind attempts, in order
BindEvents == SelectSeq(trace, LAMBDA e : e.op \in {"bind_ok", "bind_fail"})

\* the lifecycle steps, in order: the trace without the failed binds, the
\* three outcomes of the browser launch named alike
Lifecycle ==
    LET steps == SelectSeq(trace, LAMBDA e : e.op # "bind_fail")
    IN  [i \in 1..Len(steps) |->
            IF steps[i].op \in {"browser_opened", "browser_not_opened",
                                "browser_raised"}
            THEN "browser" ELSE steps[i].op]

ServingOrder ==
    <<"exists_check", "bind_ok", "print_banner", "browser", "serve_forever">>

\* C11: the lifecycle steps happen in a fixed order: start-page validation
\* precedes the first bind attempt, the banner is printed only after a bind
\* has succeeded, the browser is opened only after the banner, the serve loop
\* is entered only after the browser launch was invoked; no step is repeated
\* or skipped on the way to serving.
C11_LifecycleOrder ==
    LET L == Lifecycle
    IN  /\ BindAttempted => (trace[1].op = "exists_check" /\ startPageExists)
        /\ \A i \in 1..Len(trace) :
              trace[i].op \in {"bind_ok", "bind_fail"} => i > 1
        /\ \A k \in 1..Len(L) :
              (\E n \in 1..Len(ServingOrder) : L[k] = ServingOrder[n]) =>
                 /\ k <= Len(ServingOrder)
                 /\ SubSeq(L, 1, k) = SubSeq(ServingOrder, 1, k)
        /\ pc \in {"serving", "finally"} => ServeEntered

C11_Witness ==
    /\ ServeEntered
    /\ Happened("bind_fail")
    /\ pc = "serving"

\* C12: at most one listener is ever created (no bind is attempted after a
\* bind has succeeded), and a listener that was created is closed exactly
\* once: never more than once, and never left open when the run has ended.
C12_OneListenerClosedOnce ==
    /\ \A i \in 1..Len(BindEvents) :
          BindEvents[i].op = "bind_ok" => i = Len(BindEvents)
    /\ closes <= 1
    /\ closes = 1 => ListenerBound
    /\ (Ended /\ ListenerBound) => closes = 1

\* C13: port probing is bounded and ordered: the first bind attempt is on
\* port 8000, each further attempt is on the previous port plus one and only
\* after the previous attempt failed, no port outside 8000..8019 is attempted,
\* none twice, and the loop ends after at most 20 attempts.
C13_ProbingBoundedOrdered ==
    LET B == BindEvents
        n == Len(B)
    IN  /\ n <= PortRange
        /\ \A i \in 1..n :
              /\ B[i].port = PORT + i - 1
              /\ B[i].port \in Ports
              /\ i < n => B[i].op = "bind_fail"
              /\ \A j \in 1..n : B[i].port = B[j].port => i = j
        /\ pc = "probe" =>
              /\ port = PORT + n
              /\ n = PortRange => ~ENABLED (BindOk \/ BindFail)
        /\ (ProbingOver /\ startPageExists) =>
              \/ ListenerBound /\ B[n].op = "bind_ok"
              \/ ~ListenerBound /\ n = PortRange

C13_Witness ==
    /\ Len(BindEvents) = PortRange
    /\ BindEvents[PortRange].op = "bind_ok"
    /\ httpd = PORT + PortRange - 1
    /\ ProbingOver

\* C14: the range named in the port-exhaustion error message (8000-8019) is
\* exactly the set of ports on which a bind was attempted in that run: every
\* port of it was attempted once and failed, no other port was attempted.
C14_ErrorRangeIsSearchedRange ==
    Happened("print_error_ports") =>
        /\ {BindEvents[i].port : i \in 1..Len(BindEvents)}
              = ErrorRangeFirst..ErrorRangeLast
        /\ Len(BindEvents) = ErrorRangeLast - ErrorRangeFirst + 1
        /\ \A i \in 1..Len(BindEvents) : BindEvents[i].op = "bind_fail"

C14_Witness ==
    /\ Happened("print_error_ports")
    /\ pc = "prompt"
    /\ Len(BindEvents) = PortRange

====
